---- MODULE Spec2Model ----
(***************************************************************************)
(* Kids distribution (src/main.py): the population of kids per birth year, *)
(* the intermediate table of evaluated candidate groups and the end table  *)
(* of aggregated combinations.                                             *)
(*                                                                         *)
(* Numbers.  Python ints are unbounded and are modelled by TLA+ integers.  *)
(* A candidate's result is an int or a multiple of 0.5 (the only float      *)
(* weight is 0.5); it is carried in HALVES: the integer 2*result.  The      *)
(* end table's result (a float quotient) is carried as the reduced         *)
(* fraction [num, den] of its exact value; for the magnitudes modelled two *)
(* such quotients are equal floats exactly when the fractions are equal.   *)
(* None is the empty tuple <<>>, and a value v that may be None is <<v>>.  *)
(***************************************************************************)
EXTENDS Integers, Sequences, FiniteSets, TLC

VARIABLES pop, table, end_table, raised

vars == <<pop, table, end_table, raised>>

\* ------------------------------------------------------------ constants

CURRENT_YEAR == 2021

GROUP_ZERO_MAGIC_NUM == 57

\* EXCEPTION_APPLIED_WEIGHT = 0.5, in halves
EXCEPTION_APPLIED_WEIGHT_HALVES == 1

EXCEPTION_NOT_APPLIED_WEIGHT == 5

\* range(8) of __calc_distribution
AGE_WINDOW == 8

HOMOGENE_GROUPE == [name |-> "Homogen", weight |-> 1]

HETEROGENE_GROUPE == [name |-> "Heterogen", weight |-> 2]

COMBINATION_GROUPE == [name |-> "Kombiniran", weight |-> 3]

None == <<>>

\* ------------------------------------------------------------ bounds

\* calls of KidsPopulation.add, IntermediateTable.add, EndTable.add
MaxPop == 2

MaxRows == 2

MaxEnd == 2

\* the evaluator specification: counts of the young (age 0) and old (age 3)
\* kids (one more young kid than the exception of the combined type allows),
\* and the largest group size bound
MaxYoung == 8

MaxOld == 12

MaxSize == 12

\* ------------------------------------------------------------ Python arithmetic

Abs(x) == IF x < 0 THEN -x ELSE x

\* int(a / b) for b # 0: the quotient truncated toward zero
TruncDiv(a, b) ==
    LET q == Abs(a) \div Abs(b)
    IN  IF (a < 0) = (b < 0) THEN q ELSE -q

\* a % b for b # 0: the result has the sign of b
PyMod(a, b) == IF b > 0 THEN a % b ELSE -((-a) % (-b))

RECURSIVE Gcd(_, _)
Gcd(a, b) == IF b = 0 THEN a ELSE Gcd(b, a % b)

\* the fraction n/d (d > 0) in lowest terms
Fraction(n, d) ==
    LET g == Gcd(Abs(n), d)
    IN  [num |-> n \div g, den |-> d \div g]

\* seq[i] of a Python list: positions 0..n-1, and -n..-1 counted from the end
InRange(seq, i) == (-Len(seq)) <= i /\ i < Len(seq)

PyAt(seq, i) == IF i >= 0 THEN seq[i + 1] ELSE seq[Len(seq) + i + 1]

\* x in list
PyIn(x, list) == \E k \in DOMAIN list : list[k] = x

\* ------------------------------------------------------------ KidsPopulation

EmptyPop == [Letnik |-> <<>>, Stevilo |-> <<>>, Starost |-> <<>>]

pop_add(p, year, num_of_kids) ==
    [Letnik  |-> Append(p.Letnik, year),
     Stevilo |-> Append(p.Stevilo, num_of_kids),
     Starost |-> Append(p.Starost, CURRENT_YEAR - year)]

RECURSIVE num_of_kids_loop(_, _, _)
num_of_kids_loop(p, years, k) ==
    IF k > Len(p.Starost) THEN 0
    ELSE (IF PyIn(p.Starost[k], years) THEN p.Stevilo[k] ELSE 0)
         + num_of_kids_loop(p, years, k + 1)

get_num_of_kids_by_age_specific(p, years) == num_of_kids_loop(p, years, 1)

\* ------------------------------------------------------------ IntermediateTable

EmptyTable ==
    [Tip |-> <<>>, Posebnost |-> <<>>, Starostni_razred |-> <<>>,
     Velikosti_razred |-> <<>>, Stevilo_otrok |-> <<>>,
     Distribucija_otrok |-> <<>>, Stevilo_oddelkov |-> <<>>,
     Stevilo_ostankov |-> <<>>, Rezultat |-> <<>>,
     Moznost_razvrstitve |-> <<>>]

\* dist[age] of Python is calc_distribution(...)[age + 1]
calc_distribution(p, years) ==
    [a \in 1..AGE_WINDOW |->
        IF PyIn(a - 1, years)
        THEN get_num_of_kids_by_age_specific(p, <<a - 1>>)
        ELSE 0]

\* calc_num_of_groups with the number of groups taken from the upper bound:
\* num_of_sec = int( num_of_kids / max )
calc_num_of_groups_by_max(size_of_groupe, num_of_kids) ==
    LET max == size_of_groupe[2]
        num_of_sec == IF max = 0 THEN 0 ELSE TruncDiv(num_of_kids, max)
        rest == num_of_kids - num_of_sec * max
    IN  [raised |-> max = 0, num_of_sec |-> num_of_sec,
         num_of_remains |-> IF max = 0 \/ rest < 0 THEN 0 ELSE PyMod(rest, max)]

\* [raised, num_of_sec, num_of_remains]; raised is the ZeroDivisionError of
\* num_of_kids / min or of ... % max
calc_num_of_groups(size_of_groupe, num_of_kids) ==
    LET min == size_of_groupe[1]
        max == size_of_groupe[2]
        Raise == [raised |-> TRUE, num_of_sec |-> 0, num_of_remains |-> 0]
        Return(s, r) == [raised |-> FALSE, num_of_sec |-> s, num_of_remains |-> r]
    IN  IF min = 0 THEN Raise
        ELSE LET num_of_sec == TruncDiv(num_of_kids, min)
                 rest == num_of_kids - num_of_sec * max
             IN  IF num_of_sec = 0
                 THEN IF max = 0 THEN Raise
                      ELSE Return(num_of_sec, PyMod(num_of_kids, max))
                 ELSE IF rest < 0 THEN Return(num_of_sec, 0)
                      ELSE IF max = 0 THEN Raise
                      ELSE Return(num_of_sec, PyMod(rest, max))

\* check_for_exceptions without the test "num_of_kids_0_2 <= 7" of the
\* combined type
check_for_exceptions_without_upper(type, num_of_kids, dist_of_kids, size_of_groupe, num_of_groups, num_of_remains, exception) ==
    IF exception = None THEN None
    ELSE IF HOMOGENE_GROUPE = type THEN <<1>>
    ELSE IF HETEROGENE_GROUPE = type
         THEN IF dist_of_kids[3 + 1] <= 10 * num_of_groups THEN <<1>> ELSE <<0>>
    ELSE IF COMBINATION_GROUPE = type
         THEN LET num_of_kids_0_2 ==
                      dist_of_kids[1] + dist_of_kids[2] + dist_of_kids[3]
                  num_of_kids_3_7 ==
                      dist_of_kids[4] + dist_of_kids[5] + dist_of_kids[6]
                      + dist_of_kids[7] + dist_of_kids[8]
              IN  IF num_of_kids_0_2 >= 3
                  THEN IF num_of_kids_0_2 + num_of_kids_3_7 = size_of_groupe[2]
                       THEN <<1>>
                       ELSE None
                  ELSE <<0>>
    ELSE None

\* None, <<1>> (exception applied) or <<0>> (exception wanted and not met)
check_for_exceptions(type, num_of_kids, dist_of_kids, size_of_groupe, num_of_groups, num_of_remains, exception) ==
    IF exception = None THEN None
    ELSE IF HOMOGENE_GROUPE = type THEN <<1>>
    ELSE IF HETEROGENE_GROUPE = type
         THEN LET num_of_three == dist_of_kids[3 + 1]
              IN  IF num_of_three <= 10 * num_of_groups THEN <<1>> ELSE <<0>>
    ELSE IF COMBINATION_GROUPE = type
         THEN LET num_of_kids_0_2 ==
                      dist_of_kids[1] + dist_of_kids[2] + dist_of_kids[3]
                  num_of_kids_3_7 ==
                      dist_of_kids[4] + dist_of_kids[5] + dist_of_kids[6]
                      + dist_of_kids[7] + dist_of_kids[8]
              IN  IF num_of_kids_0_2 >= 3
                  THEN IF num_of_kids_0_2 <= 7
                       THEN IF num_of_kids_0_2 + num_of_kids_3_7 = size_of_groupe[2]
                            THEN <<1>>
                            ELSE None
                       ELSE None
                  ELSE <<0>>
    ELSE None

\* calc_result without its else branch "result *= num_of_groups"
calc_result_without_groups(type, num_of_groups, num_of_remains, exception_res) ==
    LET typed  == 1 * type.weight
        groups == IF num_of_groups = 0 THEN typed * GROUP_ZERO_MAGIC_NUM ELSE typed
        remain == groups * (2 * num_of_remains + 1)
    IN  IF exception_res = <<0>>
        THEN [halves |-> 2 * remain * EXCEPTION_NOT_APPLIED_WEIGHT, isfloat |-> FALSE]
        ELSE IF exception_res = <<1>>
        THEN [halves |-> remain * EXCEPTION_APPLIED_WEIGHT_HALVES, isfloat |-> TRUE]
        ELSE [halves |-> 2 * remain, isfloat |-> FALSE]

\* the Python number: its value in halves, and whether it is a float (only
\* the multiplication by 0.5 makes it one)
calc_result(type, num_of_groups, num_of_remains, exception_res) ==
    LET typed  == 1 * type.weight
        groups == IF num_of_groups = 0
                  THEN typed * GROUP_ZERO_MAGIC_NUM
                  ELSE typed * num_of_groups
        remain == groups * (2 * num_of_remains + 1)
    IN  IF exception_res = <<0>>
        THEN [halves |-> 2 * remain * EXCEPTION_NOT_APPLIED_WEIGHT, isfloat |-> FALSE]
        ELSE IF exception_res = <<1>>
        THEN [halves |-> remain * EXCEPTION_APPLIED_WEIGHT_HALVES, isfloat |-> TRUE]
        ELSE [halves |-> 2 * remain, isfloat |-> FALSE]

check_dist_possibility(exception_res, num_of_groups, num_of_remains) ==
    LET d1 == IF exception_res = <<0>> THEN 0 ELSE 1
        d2 == IF num_of_groups = 0 THEN 0 ELSE d1
        d3 == IF num_of_remains > 0 THEN 0 ELSE d2
    IN  d3

\* "%s" % result: the text of an int ("57") or of a float ("28.5", "3.0"),
\* as sign, digits before the point and, for a float, the digit after it
FormatResult(result) ==
    [neg   |-> result.halves < 0,
     whole |-> Abs(result.halves) \div 2,
     frac  |-> IF result.isfloat THEN <<5 * (Abs(result.halves) % 2)>> ELSE None]

\* float(text), in halves
ParseFloat(text) ==
    LET h == 2 * text.whole + (IF text.frac = <<5>> THEN 1 ELSE 0)
    IN  IF text.neg THEN -h ELSE h

\* IntermediateTable.add filling its first column before the groups are
\* calculated: the failing call leaves "Tip" one entry longer
int_add_partial(t, p, type, years, size_of_groupe, exception) ==
    LET num_of_kids  == get_num_of_kids_by_age_specific(p, years)
        dist_of_kids == calc_distribution(p, years)
        g == calc_num_of_groups(size_of_groupe, num_of_kids)
        exception_res == check_for_exceptions(type, num_of_kids, dist_of_kids,
                             size_of_groupe, g.num_of_sec, g.num_of_remains, exception)
        result == calc_result(type, g.num_of_sec, g.num_of_remains, exception_res)
        dist_possible == check_dist_possibility(exception_res, g.num_of_sec, g.num_of_remains)
    IN  IF g.raised
        THEN [raised |-> "ZeroDivisionError",
              table |-> [t EXCEPT !.Tip = Append(t.Tip, type.name)]]
        ELSE [raised |-> "none",
              table |->
                [Tip |-> Append(t.Tip, type.name),
                 Posebnost |-> Append(t.Posebnost, exception),
                 Starostni_razred |-> Append(t.Starostni_razred, years),
                 Velikosti_razred |-> Append(t.Velikosti_razred, size_of_groupe),
                 Stevilo_otrok |-> Append(t.Stevilo_otrok, num_of_kids),
                 Distribucija_otrok |-> Append(t.Distribucija_otrok, dist_of_kids),
                 Stevilo_oddelkov |-> Append(t.Stevilo_oddelkov, g.num_of_sec),
                 Stevilo_ostankov |-> Append(t.Stevilo_ostankov, g.num_of_remains),
                 Rezultat |-> Append(t.Rezultat, FormatResult(result)),
                 Moznost_razvrstitve |-> Append(t.Moznost_razvrstitve, dist_possible)]]

\* IntermediateTable.add: [raised, table]
int_add(t, p, type, years, size_of_groupe, exception) ==
    LET num_of_kids  == get_num_of_kids_by_age_specific(p, years)
        dist_of_kids == calc_distribution(p, years)
        g == calc_num_of_groups(size_of_groupe, num_of_kids)
        num_of_groups  == g.num_of_sec
        num_of_remains == g.num_of_remains
        exception_res == check_for_exceptions(type, num_of_kids, dist_of_kids,
                             size_of_groupe, num_of_groups, num_of_remains, exception)
        result == calc_result(type, num_of_groups, num_of_remains, exception_res)
        dist_possible == check_dist_possibility(exception_res, num_of_groups, num_of_remains)
    IN  IF g.raised
        THEN [raised |-> "ZeroDivisionError", table |-> t]
        ELSE [raised |-> "none",
              table |->
                [Tip |-> Append(t.Tip, type.name),
                 Posebnost |-> Append(t.Posebnost, exception),
                 Starostni_razred |-> Append(t.Starostni_razred, years),
                 Velikosti_razred |-> Append(t.Velikosti_razred, size_of_groupe),
                 Stevilo_otrok |-> Append(t.Stevilo_otrok, num_of_kids),
                 Distribucija_otrok |-> Append(t.Distribucija_otrok, dist_of_kids),
                 Stevilo_oddelkov |-> Append(t.Stevilo_oddelkov, num_of_groups),
                 Stevilo_ostankov |-> Append(t.Stevilo_ostankov, num_of_remains),
                 Rezultat |-> Append(t.Rezultat, FormatResult(result)),
                 Moznost_razvrstitve |-> Append(t.Moznost_razvrstitve, dist_possible)]]

get_type(t, idx) == PyAt(t.Tip, idx)

get_years(t, idx) == PyAt(t.Starostni_razred, idx)

is_homogene_type(t, idx) == get_type(t, idx) = HOMOGENE_GROUPE.name

is_heterogene_type(t, idx) == get_type(t, idx) = HETEROGENE_GROUPE.name

is_combination_type(t, idx) == get_type(t, idx) = COMBINATION_GROUPE.name

get_result(t, idx) == ParseFloat(PyAt(t.Rezultat, idx))

get_num_of_groups(t, idx) == PyAt(t.Stevilo_oddelkov, idx)

get_num_of_kids(t, idx) == PyAt(t.Stevilo_otrok, idx)

get_dist_possibility(t, idx) == PyAt(t.Moznost_razvrstitve, idx)

\* ------------------------------------------------------------ EndTable

EmptyEndTable ==
    [Index_vmesne_tabele |-> <<>>, Kombinacija_let_otrok |-> <<>>,
     Koncni_rezultat |-> <<>>, Pokritost_skupin |-> <<>>,
     St_homogenih_odd |-> <<>>, St_heterogenih_odd |-> <<>>,
     St_kombiniranih_odd |-> <<>>]

\* the locals of EndTable.add before its for loop
EndLocals ==
    [raised |-> FALSE, years |-> <<>>, result |-> 0,
     num_of_homogen |-> 0, num_of_heterogen |-> 0, num_of_combination |-> 0,
     num_of_homogen_gr |-> 0, num_of_heterogen_gr |-> 0, num_of_combination_gr |-> 0,
     num_of_empty_groups |-> 0, dist_possible |-> 1]

\* one pass of the loop body for idx; get_years(idx) raises IndexError first
end_add_body(t, idx, acc) ==
    IF ~ InRange(t.Tip, idx) THEN [acc EXCEPT !.raised = TRUE]
    ELSE
    LET groups == get_num_of_groups(t, idx)
        used   == IF groups > 0 THEN 1 ELSE 0
        a1 == [acc EXCEPT !.years = Append(@, get_years(t, idx))]
        a2 == IF is_homogene_type(t, idx)
              THEN [a1 EXCEPT !.num_of_homogen_gr = @ + groups,
                              !.num_of_homogen = @ + used]
              ELSE IF is_heterogene_type(t, idx)
              THEN [a1 EXCEPT !.num_of_heterogen_gr = @ + groups,
                              !.num_of_heterogen = @ + used]
              ELSE IF is_combination_type(t, idx)
              THEN [a1 EXCEPT !.num_of_combination_gr = @ + groups,
                              !.num_of_combination = @ + used]
              ELSE a1
    IN  IF 0 = get_num_of_kids(t, idx)
        THEN [a2 EXCEPT !.num_of_empty_groups = @ + 1]
        ELSE [a2 EXCEPT !.result = @ + get_result(t, idx),
                        !.dist_possible = @ * get_dist_possibility(t, idx)]

\* for idx in int_table_idx, from its k-th element on (result in halves)
RECURSIVE end_add_loop(_, _, _, _)
end_add_loop(t, int_table_idx, k, acc) ==
    IF k > Len(int_table_idx) \/ acc.raised THEN acc
    ELSE end_add_loop(t, int_table_idx, k + 1,
                      end_add_body(t, int_table_idx[k], acc))

\* "%.1f %%" % x for x = p/q >= 0: x rounded to one decimal (ties, which
\* need a divisor that is a multiple of 16, go to the even digit), as the
\* digits before and after the point
FormatPercent(p, q) ==
    LET tenths == (10 * p) \div q
        rest2  == 2 * ((10 * p) % q)
        t == IF rest2 > q \/ (rest2 = q /\ tenths % 2 = 1) THEN tenths + 1 ELSE tenths
    IN  [whole |-> t \div 10, tenth |-> t % 10]

\* EndTable.add: [raised, end_table]
end_add(e, t, int_table_idx) ==
    LET acc == end_add_loop(t, int_table_idx, 1, EndLocals)
        n   == Len(int_table_idx) - acc.num_of_empty_groups
        active == acc.num_of_homogen + acc.num_of_heterogen + acc.num_of_combination
        \* the division by zero is caught: result and groupe_full_per stay
        result == IF n = 0 THEN Fraction(acc.result, 2) ELSE Fraction(acc.result, 2 * n)
        groupe_full_per == IF n = 0 THEN FormatPercent(0, 1)
                           ELSE FormatPercent(active * 100 * acc.dist_possible, n)
    IN  IF acc.raised
        THEN [raised |-> "IndexError", end_table |-> e]
        ELSE [raised |-> "none",
              end_table |->
                [Index_vmesne_tabele |-> Append(e.Index_vmesne_tabele, int_table_idx),
                 Kombinacija_let_otrok |-> Append(e.Kombinacija_let_otrok, acc.years),
                 Koncni_rezultat |-> Append(e.Koncni_rezultat, result),
                 Pokritost_skupin |-> Append(e.Pokritost_skupin, groupe_full_per),
                 St_homogenih_odd |-> Append(e.St_homogenih_odd, acc.num_of_homogen_gr),
                 St_heterogenih_odd |-> Append(e.St_heterogenih_odd, acc.num_of_heterogen_gr),
                 St_kombiniranih_odd |-> Append(e.St_kombiniranih_odd, acc.num_of_combination_gr)]]

\* ------------------------------------------------------------ the program

\* the arguments the calls are made with
Years == {2021, 2018}

Counts == {-12, 0, 12}

Types == {HOMOGENE_GROUPE, HETEROGENE_GROUPE, COMBINATION_GROUPE}

\* the candidates int_table.add is called with: <<type, years, size, exception>>;
\* valid ones of each type, and one of each malformed kind (no target age,
\* min = 0, min < 0, max = 0, min > max as in src/main.py line 577)
Candidates ==
    { <<HOMOGENE_GROUPE,    <<0>>,    <<12, 12>>,  None>>,
      <<HOMOGENE_GROUPE,    <<3>>,    <<12, 12>>,  None>>,
      <<HETEROGENE_GROUPE,  <<0, 3>>, <<12, 12>>,  <<1>>>>,
      <<COMBINATION_GROUPE, <<0, 3>>, <<12, 12>>,  <<1>>>>,
      <<HETEROGENE_GROUPE,  <<>>,     <<12, 12>>,  None>>,
      <<HOMOGENE_GROUPE,    <<0>>,    <<0, 12>>,   None>>,
      <<HOMOGENE_GROUPE,    <<0>>,    <<-12, 12>>, None>>,
      <<COMBINATION_GROUPE, <<3>>,    <<12, 0>>,   None>>,
      <<HOMOGENE_GROUPE,    <<3>>,    <<17, 12>>,  <<1>>>> }

Combinations == {<<>>, <<0>>, <<0, 1>>, <<-1>>, <<MaxRows>>}

Init ==
    /\ pop = EmptyPop
    /\ table = EmptyTable
    /\ end_table = EmptyEndTable
    /\ raised = "none"

\* kids.add( year, num_of_kids )
PopAdd(year, num_of_kids) ==
    /\ Len(pop.Letnik) < MaxPop
    /\ pop' = pop_add(pop, year, num_of_kids)
    /\ raised' = "none"
    /\ UNCHANGED <<table, end_table>>

\* int_table.add( type, years, size_of_groupe, exception ); the table reads
\* the population it was created with (self.kids = pop)
TableAdd(type, years, size_of_groupe, exception) ==
    LET r == int_add(table, pop, type, years, size_of_groupe, exception)
    IN  /\ Len(table.Tip) < MaxRows
        /\ table' = r.table
        /\ raised' = r.raised
        /\ UNCHANGED <<pop, end_table>>

\* end_table.add( int_table_idx ); the end table reads the intermediate
\* table it was created with
EndAdd(int_table_idx) ==
    LET r == end_add(end_table, table, int_table_idx)
    IN  /\ Len(end_table.Index_vmesne_tabele) < MaxEnd
        /\ end_table' = r.end_table
        /\ raised' = r.raised
        /\ UNCHANGED <<pop, table>>

Next ==
    \/ \E year \in Years, num_of_kids \in Counts : PopAdd(year, num_of_kids)
    \/ \E c \in Candidates : TableAdd(c[1], c[2], c[3], c[4])
    \/ \E int_table_idx \in Combinations : EndAdd(int_table_idx)

Spec == Init /\ [][Next]_vars

\* ------------------------------------------------------------ the evaluator alone

\* One candidate evaluated over a population of young (age 0) and old
\* (age 3) kids: every type, with and without exception, every pair of size
\* bounds in EvalSizes (zero and a negative bound included, as the code
\* takes them) and a negative count of young kids (as KidsPopulation.add
\* takes it).
EvalYoung == (-1)..MaxYoung

EvalOld == 0..MaxOld

EvalSizes == (-1)..MaxSize

EvalAgeSets == {<<0>>, <<3>>, <<0, 3>>}

EvalPop(young, old) == pop_add(pop_add(EmptyPop, CURRENT_YEAR, young), CURRENT_YEAR - 3, old)

InitEval ==
    /\ pop \in {EvalPop(y, o) : y \in EvalYoung, o \in EvalOld}
    /\ table = EmptyTable
    /\ end_table = EmptyEndTable
    /\ raised = "none"

EvaluateCandidate(type, years, size_of_groupe, exception) ==
    /\ table.Tip = <<>>
    /\ raised = "none"
    /\ TableAdd(type, years, size_of_groupe, exception)

\* (the guard comes first so that it is decided once per state)
NextEval ==
    /\ table.Tip = <<>>
    /\ \E type \in Types, years \in EvalAgeSets, min \in EvalSizes, max \in EvalSizes,
          exception \in {None, <<1>>} :
           EvaluateCandidate(type, years, <<min, max>>, exception)

SpecEval == InitEval /\ [][NextEval]_vars

\* ------------------------------------------------------------ stored rows

Rows(t) == 1..Len(t.Tip)

TypeByName(name) == CHOOSE type \in Types : type.name = name

\* the exception outcome of a stored row, from the fields it was decided on
RowOutcome(t, i) ==
    check_for_exceptions(TypeByName(t.Tip[i]), t.Stevilo_otrok[i],
        t.Distribucija_otrok[i], t.Velikosti_razred[i], t.Stevilo_oddelkov[i],
        t.Stevilo_ostankov[i], t.Posebnost[i])

\* the score of a stored row as the end table reads it, in halves
RowScore(t, i) == ParseFloat(t.Rezultat[i])

\* a row evaluated from a non-negative count with bounds 1 <= min <= max
ValidRow(t, i) ==
    /\ t.Stevilo_otrok[i] >= 0
    /\ \A a \in 1..AGE_WINDOW : t.Distribucija_otrok[i][a] >= 0
    /\ 1 <= t.Velikosti_razred[i][1]
    /\ t.Velikosti_razred[i][1] <= t.Velikosti_razred[i][2]

\* ------------------------------------------------------------ C7

\* C7: for kidCount >= 0, min >= 1 and max >= 1 the stored groupCount is
\* floor(kidCount / min); the stored remainderCount is kidCount mod max when
\* groupCount = 0 and otherwise, with remaining = kidCount - groupCount*max,
\* 0 if remaining < 0 and remaining mod max if not; remainderCount is in
\* 0..max-1 whenever groupCount > 0; 13 kids with bounds (9, 12) give one
\* group and remainder 1.
C7_GroupsAndRemainder ==
    \A i \in Rows(table) :
        LET kidCount == table.Stevilo_otrok[i]
            min == table.Velikosti_razred[i][1]
            max == table.Velikosti_razred[i][2]
            groupCount == table.Stevilo_oddelkov[i]
            remainderCount == table.Stevilo_ostankov[i]
            remaining == kidCount - groupCount * max
        IN  (kidCount >= 0 /\ min >= 1 /\ max >= 1) =>
              /\ groupCount = kidCount \div min
              /\ groupCount = 0 => remainderCount = kidCount % max
              /\ groupCount # 0 =>
                    remainderCount = IF remaining < 0 THEN 0 ELSE remaining % max
              /\ groupCount > 0 => remainderCount \in 0..(max - 1)
              /\ (kidCount = 13 /\ min = 9 /\ max = 12) =>
                    (groupCount = 1 /\ remainderCount = 1)

C7_Witness ==
    \E i \in Rows(table) :
        /\ table.Stevilo_otrok[i] = 13
        /\ table.Velikosti_razred[i] = <<9, 12>>
        /\ table.Stevilo_oddelkov[i] = 1
        /\ table.Stevilo_ostankov[i] = 1

\* ------------------------------------------------------------ C8

\* C8 as amended: for a stored candidate, with its kind and exception
\* outcome fixed, one more group gives a strictly higher score when
\* groupCount > 0 and remainderCount >= 0, and one more remaining kid gives
\* a strictly higher score when groupCount >= 0.
C8_ScoreIncreasing ==
    \A i \in Rows(table) :
        LET type == TypeByName(table.Tip[i])
            g == table.Stevilo_oddelkov[i]
            r == table.Stevilo_ostankov[i]
            e == RowOutcome(table, i)
        IN  /\ (g > 0 /\ r >= 0) =>
                 calc_result(type, g + 1, r, e).halves > RowScore(table, i)
            /\ g >= 0 =>
                 calc_result(type, g, r + 1, e).halves > RowScore(table, i)

C8_Witness ==
    \E i \in Rows(table) :
        /\ table.Stevilo_oddelkov[i] > 1
        /\ table.Stevilo_ostankov[i] > 0
        /\ RowOutcome(table, i) = <<1>>

\* C8 as stated: the score is strictly decreasing as groupCount increases
\* over groupCount > 0 and strictly increasing as remainderCount increases
\* (read for the candidates of valid input alone: non-negative counts and
\* bounds 1 <= min <= max).
C8_ScoreDecreasingInGroups ==
    \A i \in Rows(table) :
        LET type == TypeByName(table.Tip[i])
            g == table.Stevilo_oddelkov[i]
            r == table.Stevilo_ostankov[i]
            e == RowOutcome(table, i)
        IN  (ValidRow(table, i) /\ g > 0) =>
              /\ calc_result(type, g + 1, r, e).halves < RowScore(table, i)
              /\ calc_result(type, g, r + 1, e).halves > RowScore(table, i)

\* ------------------------------------------------------------ C9

\* C9: the feasible flag stored for a candidate is 1 exactly when
\* groupCount > 0 and remainderCount = 0 and the exception outcome is not
\* "denied" (<<0>>).
C9_FeasibleFlag ==
    \A i \in Rows(table) :
        table.Moznost_razvrstitve[i] = 1
            <=> /\ table.Stevilo_oddelkov[i] > 0
                /\ table.Stevilo_ostankov[i] = 0
                /\ RowOutcome(table, i) # <<0>>

\* ------------------------------------------------------------ C10

\* the scores (in halves) of the zero-group candidates of valid input: every
\* type, target ages, exception request, bounds 1 <= min <= max and counts
\* young, old >= 0 of the evaluator specification
ZeroGroupScores ==
    LET evaluated ==
          { int_add(EmptyTable, EvalPop(y, o), type, years, <<min, max>>, exception) :
              y \in 0..MaxYoung, o \in 0..MaxOld, type \in Types, years \in EvalAgeSets,
              min \in 1..MaxSize, max \in 1..MaxSize, exception \in {None, <<1>>} }
    IN  { RowScore(x.table, 1) :
            x \in { z \in evaluated : /\ z.raised = "none"
                                      /\ ValidRow(z.table, 1)
                                      /\ z.table.Stevilo_oddelkov[1] = 0 } }

\* C10: the score of a candidate with groupCount > 0 (of valid input) is
\* never the score of a zero-group candidate, and the zero-group candidate
\* of the same kind, remainderCount and exception outcome scores higher.
C10_ZeroGroupScoreApart ==
    \A i \in Rows(table) :
        (ValidRow(table, i) /\ table.Stevilo_oddelkov[i] > 0) =>
            /\ RowScore(table, i) \notin ZeroGroupScores
            /\ calc_result(TypeByName(table.Tip[i]), 0, table.Stevilo_ostankov[i],
                           RowOutcome(table, i)).halves > RowScore(table, i)

\* ------------------------------------------------------------ C1

\* C1: KidsPopulation.add with a negative count fails and leaves the
\* population (birth years, counts, ages) exactly as it was.
C1_NegativeCountRejected ==
    [][\A year \in Years, num_of_kids \in Counts :
          (num_of_kids < 0 /\ PopAdd(year, num_of_kids))
              => (pop' = pop /\ raised' # "none")]_vars

\* ------------------------------------------------------------ C2

Malformed(years, size_of_groupe) ==
    \/ size_of_groupe[1] <= 0
    \/ size_of_groupe[2] <= 0
    \/ size_of_groupe[1] > size_of_groupe[2]
    \/ years = <<>>

\* C2: IntermediateTable.add with a malformed candidate (min <= 0, max <= 0,
\* min > max or no target age) fails and appends no row: the table after
\* the call is the table before it.
C2_MalformedCandidateRejected ==
    [][\A c \in Candidates :
          (Malformed(c[2], c[3]) /\ TableAdd(c[1], c[2], c[3], c[4]))
              => (table' = table /\ raised' # "none")]_vars

\* ------------------------------------------------------------ combinations

\* the positions k of a combination whose candidate satisfies P
Referenced(c, P(_)) == {k \in DOMAIN c : P(c[k])}

AllInRange(c) == \A k \in DOMAIN c : InRange(table.Tip, c[k])

HasKids(idx) == get_num_of_kids(table, idx) > 0

HasGroups(idx) == get_num_of_groups(table, idx) > 0

\* sum of the scores (in halves) of the referenced candidates with kidCount > 0
RECURSIVE ScoreSum(_, _)
ScoreSum(c, k) ==
    IF k > Len(c) THEN 0
    ELSE (IF HasKids(c[k]) THEN get_result(table, c[k]) ELSE 0) + ScoreSum(c, k + 1)

\* the row of the end table that the step appended
StoredScore == end_table'.Koncni_rezultat[Len(end_table'.Koncni_rezultat)]

StoredCoverage == end_table'.Pokritost_skupin[Len(end_table'.Pokritost_skupin)]

Appended == Len(end_table'.Koncni_rezultat) = Len(end_table.Koncni_rezultat) + 1

\* what EndTable.add records as the score of the empty combination
UndefinedScore == end_add(EmptyEndTable, EmptyTable, <<>>).end_table.Koncni_rezultat[1]

\* ------------------------------------------------------------ C3

\* C3: for a combination whose candidates all have kidCount = 0 (the empty
\* combination included) EndTable.add does not fail and records the
\* "undefined" score, and that score is never the score recorded for a
\* combination with a candidate of kidCount # 0.
C3_UndefinedScoreDistinguishable ==
    [][\A c \in Combinations :
          (EndAdd(c) /\ AllInRange(c)) =>
              IF \A k \in DOMAIN c : get_num_of_kids(table, c[k]) = 0
              THEN raised' = "none" /\ Appended /\ StoredScore = UndefinedScore
              ELSE raised' = "none" /\ Appended /\ StoredScore # UndefinedScore]_vars

\* ------------------------------------------------------------ C4

\* C4: a combination with a position outside 0..n-1 (n rows in the
\* intermediate table; negative positions included) makes EndTable.add fail
\* and append nothing to the end table.
C4_BadPositionRejected ==
    [][\A c \in Combinations :
          (EndAdd(c) /\ \E k \in DOMAIN c : c[k] \notin 0..(Len(table.Tip) - 1))
              => (end_table' = end_table /\ raised' # "none")]_vars

\* ------------------------------------------------------------ C5

\* C5: for a combination with a candidate of kidCount > 0 the recorded score
\* is the sum of the scores of the referenced candidates with kidCount > 0
\* divided by their number.
C5_MeanOverNonEmpty ==
    [][\A c \in Combinations :
          (EndAdd(c) /\ AllInRange(c) /\ Referenced(c, HasKids) # {}) =>
              /\ Appended
              /\ StoredScore =
                   Fraction(ScoreSum(c, 1), 2 * Cardinality(Referenced(c, HasKids)))]_vars

\* ------------------------------------------------------------ C6

\* C6: the recorded coverage is 100 x (referenced candidates with
\* groupCount > 0) / (referenced candidates with kidCount > 0), times the
\* AND of the feasible flags of the latter; and when every referenced
\* candidate was evaluated with min >= 1 it is 0.0 (a referenced candidate
\* with kids is infeasible, or none has kids) or else exactly 100.0.
C6_Coverage ==
    [][\A c \in Combinations :
          (EndAdd(c) /\ AllInRange(c)) =>
              LET withKids == Referenced(c, HasKids)
                  feasible == \A k \in withKids : get_dist_possibility(table, c[k]) = 1
                  minValid == \A k \in DOMAIN c : PyAt(table.Velikosti_razred, c[k])[1] >= 1
              IN  /\ Appended
                  /\ withKids # {} =>
                       StoredCoverage =
                         FormatPercent(100 * Cardinality(Referenced(c, HasGroups))
                                           * (IF feasible THEN 1 ELSE 0),
                                       Cardinality(withKids))
                  /\ minValid =>
                       StoredCoverage = IF withKids = {} \/ ~ feasible
                                        THEN [whole |-> 0, tenth |-> 0]
                                        ELSE [whole |-> 100, tenth |-> 0]]_vars

\* ------------------------------------------------------------ valid input

\* C3, C5, C6 and C9 above fail only on candidates of invalid input, which
\* KidsPopulation.add and IntermediateTable.add take (C1, C2).  Read for the
\* combinations whose candidates all come from a non-negative count and a
\* bound min >= 1, each of them holds:
RefValid(c) ==
    \A k \in DOMAIN c :
        /\ get_num_of_kids(table, c[k]) >= 0
        /\ PyAt(table.Velikosti_razred, c[k])[1] >= 1

\* C3 for candidates of valid input
C3_OnValidInput ==
    [][\A c \in Combinations :
          (EndAdd(c) /\ AllInRange(c) /\ RefValid(c)) =>
              /\ raised' = "none" /\ Appended
              /\ StoredScore = UndefinedScore
                   <=> \A k \in DOMAIN c : get_num_of_kids(table, c[k]) = 0]_vars

\* C5 for candidates of valid input
C5_OnValidInput ==
    [][\A c \in Combinations :
          (EndAdd(c) /\ AllInRange(c) /\ RefValid(c) /\ Referenced(c, HasKids) # {}) =>
              /\ Appended
              /\ StoredScore =
                   Fraction(ScoreSum(c, 1), 2 * Cardinality(Referenced(c, HasKids)))]_vars

\* C6 for candidates of valid input
C6_OnValidInput ==
    [][\A c \in Combinations :
          (EndAdd(c) /\ AllInRange(c) /\ RefValid(c)) =>
              LET withKids == Referenced(c, HasKids)
                  feasible == \A k \in withKids : get_dist_possibility(table, c[k]) = 1
              IN  /\ Appended
                  /\ withKids # {} =>
                       StoredCoverage =
                         FormatPercent(100 * Cardinality(Referenced(c, HasGroups))
                                           * (IF feasible THEN 1 ELSE 0),
                                       Cardinality(withKids))
                  /\ StoredCoverage = IF withKids = {} \/ ~ feasible
                                      THEN [whole |-> 0, tenth |-> 0]
                                      ELSE [whole |-> 100, tenth |-> 0]]_vars

\* C4 for the positions outside -n..n-1
C4_OutOfRangeRejected ==
    [][\A c \in Combinations :
          (EndAdd(c) /\ ~ AllInRange(c))
              => (end_table' = end_table /\ raised' = "IndexError")]_vars

\* C9 for candidates of a non-negative count and bounds min >= 1, max >= 1
C9_OnValidInput ==
    \A i \in Rows(table) :
        (/\ table.Stevilo_otrok[i] >= 0
         /\ table.Velikosti_razred[i][1] >= 1
         /\ table.Velikosti_razred[i][2] >= 1) =>
            (table.Moznost_razvrstitve[i] = 1
                <=> /\ table.Stevilo_oddelkov[i] > 0
                    /\ table.Stevilo_ostankov[i] = 0
                    /\ RowOutcome(table, i) # <<0>>)

\* ------------------------------------------------------------ C11

\* the stored rows agree with population p: each kidCount is the count of the
\* row's target ages in p and each distribution is p's per-age counts
RowsReadFrom(t, p) ==
    \A i \in Rows(t) :
        /\ t.Stevilo_otrok[i] = get_num_of_kids_by_age_specific(p, t.Starostni_razred[i])
        /\ t.Distribucija_otrok[i] = calc_distribution(p, t.Starostni_razred[i])

\* C11: once the first candidate has been evaluated no later operation
\* changes the population, and so in every state each stored row's kidCount
\* and age distribution are those of the current population.
C11_PopulationImmutable ==
    [][/\ table.Tip # <<>> => pop' = pop
       /\ RowsReadFrom(table', pop')]_vars

\* C11 for the row an evaluation appends: it is read from the population of
\* the moment of the call
C11_RowReadAtEvaluation ==
    [][\A c \in Candidates :
          (TableAdd(c[1], c[2], c[3], c[4]) /\ raised' = "none") =>
              LET n == Len(table'.Tip)
              IN  /\ table'.Stevilo_otrok[n] = get_num_of_kids_by_age_specific(pop, c[2])
                  /\ table'.Distribucija_otrok[n] = calc_distribution(pop, c[2])]_vars

\* ------------------------------------------------------------ C12

\* all columns of a table have the same length
ColumnsAligned(t) == \A f \in DOMAIN t, g \in DOMAIN t : Len(t[f]) = Len(t[g])

\* new is old with exactly one row more, at the end, in every column
OneRowAppended(new, old) ==
    /\ DOMAIN new = DOMAIN old
    /\ \A f \in DOMAIN old :
          /\ Len(new[f]) = Len(old[f]) + 1
          /\ SubSeq(new[f], 1, Len(old[f])) = old[f]

\* a call that succeeded appended one row to its table, one that failed
\* left the table as it was
AddedOrFailed(new, old) ==
    IF raised' = "none" THEN OneRowAppended(new, old) ELSE new = old

\* C12: after every call, succeeding or failing, all columns of each table
\* have the same length; a successful add appends exactly one row at the end
\* of its own table and a failing add appends nothing; the rows stored
\* earlier keep their position and values; IntermediateTable.add never
\* changes the population and EndTable.add never changes the intermediate
\* table or the population.
C12_AppendOnlyRowAtomic ==
    [][/\ ColumnsAligned(pop') /\ ColumnsAligned(table') /\ ColumnsAligned(end_table')
       /\ \A year \in Years, num_of_kids \in Counts :
             PopAdd(year, num_of_kids) =>
                 /\ AddedOrFailed(pop', pop)
                 /\ table' = table /\ end_table' = end_table
       /\ \A c \in Candidates :
             TableAdd(c[1], c[2], c[3], c[4]) =>
                 /\ AddedOrFailed(table', table)
                 /\ pop' = pop /\ end_table' = end_table
       /\ \A c \in Combinations :
             EndAdd(c) =>
                 /\ AddedOrFailed(end_table', end_table)
                 /\ pop' = pop /\ table' = table]_vars

\* a call has just failed with rows stored in all three tables
C12_Witness ==
    /\ raised # "none"
    /\ pop.Letnik # <<>>
    /\ Len(table.Tip) = MaxRows
    /\ end_table.Koncni_rezultat # <<>>

\* ------------------------------------------------------------ C13

\* the kids of ages 0..2 and of ages 3..7 in the distribution of a stored row
YoungOf(t, i) ==
    t.Distribucija_otrok[i][1] + t.Distribucija_otrok[i][2] + t.Distribucija_otrok[i][3]

OldOf(t, i) ==
    t.Distribucija_otrok[i][4] + t.Distribucija_otrok[i][5] + t.Distribucija_otrok[i][6]
    + t.Distribucija_otrok[i][7] + t.Distribucija_otrok[i][8]

\* the row the same candidate gives when no exception is requested
WithoutException(t, i) ==
    int_add(EmptyTable, pop, TypeByName(t.Tip[i]), t.Starostni_razred[i],
            t.Velikosti_razred[i], None).table

\* C13: a Combined candidate with an exception requested is denied (score
\* times 5, infeasible) when young < 3; granted (score times 0.5) when
\* 3 <= young <= 7 and young + old = max; and in every other case it is
\* scored and flagged exactly as if no exception had been requested.
C13_CombinedException ==
    \A i \in Rows(table) :
        (table.Tip[i] = COMBINATION_GROUPE.name /\ table.Posebnost[i] # None) =>
            LET young == YoungOf(table, i)
                old   == OldOf(table, i)
                max   == table.Velikosti_razred[i][2]
                plain == WithoutException(table, i)
            IN  IF young < 3
                THEN /\ RowScore(table, i) = 5 * RowScore(plain, 1)
                     /\ table.Moznost_razvrstitve[i] = 0
                ELSE IF young <= 7 /\ young + old = max
                THEN 2 * RowScore(table, i) = RowScore(plain, 1)
                ELSE /\ table.Rezultat[i] = plain.Rezultat[1]
                     /\ table.Moznost_razvrstitve[i] = plain.Moznost_razvrstitve[1]

\* a Combined candidate with an exception requested and more than 7 young
\* kids in a full group: no outcome is assigned
C13_Witness ==
    /\ table.Tip = <<COMBINATION_GROUPE.name>>
    /\ table.Posebnost = <<<<1>>>>
    /\ YoungOf(table, 1) = 8
    /\ OldOf(table, 1) = 4
    /\ table.Velikosti_razred = <<<<12, 12>>>>
    /\ table.Moznost_razvrstitve = <<1>>

\* the granted case: 5 young and 7 old kids in a group of 12 score
\* 3 * 1 * 1 * 0.5, stored as "1.5"
C13_GrantedRow ==
    /\ table.Tip = <<COMBINATION_GROUPE.name>>
    /\ table.Posebnost = <<<<1>>>>
    /\ YoungOf(table, 1) = 5 /\ OldOf(table, 1) = 7
    /\ table.Velikosti_razred = <<<<12, 12>>>>
    /\ table.Rezultat = <<[neg |-> FALSE, whole |-> 1, frac |-> <<5>>]>>

\* ------------------------------------------------------------ C14

\* no kid of row i is lost, and a row flagged feasible splits into its
\* groups with every group size within [min, max]
NoKidLost(t, i) ==
    LET kidCount == t.Stevilo_otrok[i]
        min == t.Velikosti_razred[i][1]
        max == t.Velikosti_razred[i][2]
        groupCount == t.Stevilo_oddelkov[i]
    IN  /\ kidCount <= groupCount * max + t.Stevilo_ostankov[i]
        /\ t.Moznost_razvrstitve[i] = 1 =>
              (groupCount * min <= kidCount /\ kidCount <= groupCount * max)

\* C14: for every kidCount >= 0 and every size bounds that
\* IntermediateTable.add accepts, kidCount <= groupCount*max + remainderCount,
\* and whenever the stored feasible flag is 1,
\* groupCount*min <= kidCount <= groupCount*max.
C14_NoKidLost ==
    \A i \in Rows(table) : table.Stevilo_otrok[i] >= 0 => NoKidLost(table, i)

\* C14 for the candidates with bounds 1 <= min <= max
C14_OnValidInput ==
    \A i \in Rows(table) : ValidRow(table, i) => NoKidLost(table, i)

\* C14 read for positive bounds only: it fails as well, with min > max as in
\* the bounds [17,12] of src/main.py line 577 (1 kid, bounds <<2, 1>>: no
\* group and remainder 1 % 1 = 0)
C14_OnPositiveBounds ==
    \A i \in Rows(table) :
        (/\ table.Stevilo_otrok[i] >= 0
         /\ \A a \in 1..AGE_WINDOW : table.Distribucija_otrok[i][a] >= 0
         /\ table.Velikosti_razred[i][1] >= 1
         /\ table.Velikosti_razred[i][2] >= 1) => NoKidLost(table, i)

====
